---- MODULE Spec2Model ----
(***************************************************************************)
(* A model of the Quiver entity-component-system runtime (src/quiver.h):   *)
(* the per-type component stores (Registrar<Component>), the World facade,  *)
(* and the cached system queries (System<Components...>).                   *)
(*                                                                          *)
(* Representation.                                                          *)
(*  - A ComponentSignature (std::bitset) is the set of its set bits.        *)
(*  - A std::map is a function on its key set; a std::set is a set; a       *)
(*    std::vector is a sequence (slot i of the vector is element i+1).      *)
(*  - A component instance is named by the handle it was constructed for.   *)
(*  - A reference into a dense component array is the slot index it points  *)
(*    at; a SystemDescriptor* is <<bit, position, buffer>>, the buffer       *)
(*    being the allocation of systemDescriptors.at(bit) it points into.     *)
(*  - A C++ exception ends the handler where it is thrown; what the handler *)
(*    had written by then stays written. The field err of a world record    *)
(*    carries the exception, site the source line that threw it.            *)
(***************************************************************************)
EXTENDS Integers, Sequences, FiniteSets, TLC

\* ------------------------------------------------------------------ bounds
MaxEntities == 3       \* createEntity is called at most this many times
MaxSlots == 3          \* a dense component array holds at most this many slots
MaxCalls == 8          \* a run makes at most this many calls of the API
MaxWrappers == 3       \* a run constructs at most this many Entity objects

\* --------------------------------------------------------------- constants
componentBitsetSize == 64

Types == {"A", "B"}
Systems == {"SysA", "SysB", "SysAB"}

\* The template arguments of each System<Components...> instantiation.
SystemComponents(S) ==
    CASE S = "SysA" -> {"A"}
      [] S = "SysB" -> {"B"}
      [] S = "SysAB" -> {"A", "B"}

Handles == 0 .. MaxEntities        \* 0 is the null handle
Wrappers == 1 .. MaxWrappers       \* the Entity objects of the client
NoType == "-"
NoErr == "none"
OutOfRange == "out_of_range"       \* std::out_of_range of map::at / vector::at
BadFunctionCall == "bad_function_call"

\* The outcomes of dereferencing a SystemDescriptor* whose vector has been
\* reallocated since the pointer was taken (undefined behaviour).
UBOutcomes == {"intact", "empty_function", "fault"}

VARIABLES
    signature,                \* Registrar<T>::signature
    signatureBit,             \* Registrar<T>::signatureBit
    components,               \* Registrar<T>::components
    handleMap,                \* Registrar<T>::handleMap
    reverseMap,               \* Registrar<T>::reverseMap
    componentId,              \* World::componentId
    entityId,                 \* World::entityId
    destructors,              \* World::destructors
    systemDescriptors,        \* World::systemDescriptors
    descriptorBuffer,         \* capacity and allocation of each inner vector
    entitySignatures,         \* World::entitySignatures
    entitySystemDescriptors,  \* World::entitySystemDescriptors
    entities,                 \* System<...>::entities
    componentList,            \* System<...>::componentList
    registered,               \* System<...>::registered
    aborted,                  \* the process has been terminated by a fault
    last,                     \* the call made last and how it ended
    calls,                    \* the number of calls made so far
    script,                   \* the steps of the scenario made so far
    wrappers                  \* Entity::handle and lifetime of each Entity

vars == <<signature, signatureBit, components, handleMap, reverseMap,
          componentId, entityId, destructors, systemDescriptors,
          descriptorBuffer, entitySignatures, entitySystemDescriptors,
          entities, componentList, registered, aborted, last, calls,
          script, wrappers>>

\* The program's containers (everything but the bookkeeping of the run).
worldVars == <<signature, signatureBit, components, handleMap, reverseMap,
               componentId, entityId, destructors, systemDescriptors,
               descriptorBuffer, entitySignatures, entitySystemDescriptors,
               entities, componentList, registered>>

\* ----------------------------------------------------------------- helpers
Min(S) == CHOOSE x \in S : \A y \in S : x <= y

MapErase(m, k) == [x \in DOMAIN m \ {k} |-> m[x]]

\* std::map::emplace keeps the existing mapping when the key is present.
MapEmplace(m, k, v) == IF k \in DOMAIN m THEN m ELSE m @@ (k :> v)

EmptyMap == [x \in {} |-> 0]

\* The state of the program as one record, so that handlers compose.
World ==
    [signature |-> signature, signatureBit |-> signatureBit,
     components |-> components, handleMap |-> handleMap,
     reverseMap |-> reverseMap, componentId |-> componentId,
     entityId |-> entityId, destructors |-> destructors,
     systemDescriptors |-> systemDescriptors,
     descriptorBuffer |-> descriptorBuffer,
     entitySignatures |-> entitySignatures,
     entitySystemDescriptors |-> entitySystemDescriptors,
     entities |-> entities, componentList |-> componentList,
     registered |-> registered, aborted |-> aborted,
     err |-> NoErr, site |-> 0]

Throw(w, e, line) == [w EXCEPT !.err = e, !.site = line]

\* -------------------------------------------------- Registrar<Component>
\* A faulty addComponent: the handle is not entered into handleMap.
RegistrarAddComponentNoHandle(w, T, handle) ==
    LET comps == Append(w.components[T], handle)
        idx == Len(comps) - 1
    IN [w EXCEPT !.components[T] = comps,
                 !.reverseMap[T] = MapEmplace(@, idx, handle)]

RegistrarAddComponent(w, T, handle) ==
    LET comps == Append(w.components[T], handle)
        idx == Len(comps) - 1
    IN [w EXCEPT !.components[T] = comps,
                 !.handleMap[T] = MapEmplace(@, handle, idx),
                 !.reverseMap[T] = MapEmplace(@, idx, handle)]

createComponent(w, T, handle) == RegistrarAddComponent(w, T, handle)

\* A faulty swap-and-pop: the last slot is popped without the swap.
swapAndPopNoSwap(w, T, handle) ==
    LET hm == w.handleMap[T]
        rm == w.reverseMap[T]
        cs == w.components[T]
        size == Len(cs)
        index == hm[handle]
        otherHandle == rm[size - 1]
    IN [w EXCEPT
          !.components[T] = SubSeq(cs, 1, size - 1),
          !.handleMap[T] = MapErase([hm EXCEPT ![otherHandle] = index], handle),
          !.reverseMap[T] =
              MapErase([rm EXCEPT ![index] = otherHandle], size - 1)]

\* Lines 54-61 of removeComponent, for a handle that handleMap holds: swap
\* the slot with the last one, repoint the moved entity, pop, erase.
\* (components.back() of an empty array would be undefined; handleMap is
\* never non-empty over an empty array, see StoreIndicesInRange.)
swapAndPop(w, T, handle) ==
    LET hm == w.handleMap[T]
        rm == w.reverseMap[T]
        cs == w.components[T]
        size == Len(cs)
        index == hm[handle]
    IN IF index >= size THEN Throw(w, OutOfRange, 54)
       ELSE LET swapped == [cs EXCEPT ![size] = cs[index + 1],
                                      ![index + 1] = cs[size]]
                w1 == [w EXCEPT !.components[T] = swapped]
            IN
       IF (size - 1) \notin DOMAIN rm THEN Throw(w1, OutOfRange, 55)
       ELSE LET otherHandle == rm[size - 1] IN
       IF otherHandle \notin DOMAIN hm THEN Throw(w1, OutOfRange, 56)
       ELSE LET hm2 == [hm EXCEPT ![otherHandle] = index]
                w2 == [w1 EXCEPT !.handleMap[T] = hm2]
            IN
       IF index \notin DOMAIN rm THEN Throw(w2, OutOfRange, 57)
       ELSE [w2 EXCEPT
               !.components[T] = SubSeq(swapped, 1, size - 1),
               !.handleMap[T] = MapErase(hm2, handle),
               !.reverseMap[T] =
                   MapErase([rm EXCEPT ![index] = otherHandle], size - 1)]

\* A faulty removeComponent: a handle that holds no component is skipped
\* without an error (find instead of at).
RegistrarRemoveComponentLenient(w, T, handle) ==
    IF handle \notin DOMAIN w.handleMap[T] THEN w
    ELSE swapAndPop(w, T, handle)

RegistrarRemoveComponent(w, T, handle) ==
    IF handle \notin DOMAIN w.handleMap[T] THEN Throw(w, OutOfRange, 53)
    ELSE swapAndPop(w, T, handle)

\* Whether Registrar<T>::getComponent(handle) returns (it throws otherwise).
getComponentSucceeds(w, T, handle) ==
    /\ handle \in DOMAIN w.handleMap[T]
    /\ w.handleMap[T][handle] < Len(w.components[T])

\* The slot Registrar<T>::getComponent(handle) returns a reference to.
getComponent(w, T, handle) == w.handleMap[T][handle]

\* ------------------------------------------------- System<Components...>
\* One SystemDescriptor: the required signature, and the system whose static
\* entities set and regenerateComponentList it points at.
SystemDescriptor(sig, S) == [signature |-> sig, system |-> S]

\* make_tuple(ref(Registrar<Components>::getComponent(handle))..., handle)
getComponentTuple(w, S, handle) ==
    [slot |-> [T \in SystemComponents(S) |-> getComponent(w, T, handle)],
     entity |-> handle]

RECURSIVE TupleList(_, _, _)
TupleList(w, S, es) ==
    IF es = {} THEN <<>>
    ELSE LET h == Min(es)
         IN <<getComponentTuple(w, S, h)>> \o TupleList(w, S, es \ {h})

\* clear, then copy a tuple per member in the set's (ascending) order; a
\* getComponent that throws leaves the tuples copied before it.
regenerateComponentList(w, S) ==
    LET ents == w.entities[S]
        bad == {h \in ents :
                  \E T \in SystemComponents(S) : ~getComponentSucceeds(w, T, h)}
        good == IF bad = {} THEN ents ELSE {h \in ents : h < Min(bad)}
        w1 == [w EXCEPT !.componentList[S] = TupleList(w, S, good)]
    IN IF bad = {} THEN w1 ELSE Throw(w1, OutOfRange, 65)

generateSignature(w, S) == UNION {w.signature[T] : T \in SystemComponents(S)}

\* emplace_back into systemDescriptors.at(bit): a full vector moves to a
\* new allocation of doubled capacity, the old one is freed.
emplaceDescriptor(w, bit, d) ==
    LET buf == w.descriptorBuffer[bit + 1]
        full == Len(w.systemDescriptors[bit + 1]) = buf.capacity
        grown == [capacity |-> IF buf.capacity = 0 THEN 1 ELSE 2 * buf.capacity,
                  buffer |-> buf.buffer + 1]
    IN [w EXCEPT !.systemDescriptors[bit + 1] = Append(@, d),
                 !.descriptorBuffer[bit + 1] = IF full THEN grown ELSE buf]

RECURSIVE registerLoop(_, _, _, _)
registerLoop(w, S, sig, bits) ==
    IF bits = {} THEN w
    ELSE LET bit == Min(bits) IN
         IF bit >= Len(w.systemDescriptors) THEN Throw(w, OutOfRange, 185)
         ELSE registerLoop(emplaceDescriptor(w, bit, SystemDescriptor(sig, S)),
                           S, sig, bits \ {bit})

\* A faulty registerSystem: the `registered` flag is not consulted.
registerSystemUnguarded(w, S) ==
    LET sig == generateSignature(w, S)
        w1 == registerLoop(w, S, sig, sig)
    IN IF w1.err # NoErr THEN w1
       ELSE [w1 EXCEPT !.registered[S] = TRUE]

registerSystem(w, S) ==
    IF w.registered[S] THEN w
    ELSE LET sig == generateSignature(w, S)
             w1 == registerLoop(w, S, sig, sig)
         IN IF w1.err # NoErr THEN w1
            ELSE [w1 EXCEPT !.registered[S] = TRUE]

\* ------------------------------------------------------------------ World
compareSignatures(entity, system) == (entity \cap system) = system

\* registerComponent<Component, Components...>(): the head of the pack is
\* registered, then the call recurses on the rest of it.
RECURSIVE registerComponent(_, _)
registerComponent(w, pack) ==
    LET T == Head(pack)
        w1 == [w EXCEPT !.signature[T] = {}]
    IN IF w.componentId >= componentBitsetSize THEN Throw(w1, OutOfRange, 74)
       ELSE LET w2 == [w1 EXCEPT
                         !.signature[T] = {w.componentId},
                         !.signatureBit[T] = w.componentId,
                         !.destructors = Append(@, T),
                         !.systemDescriptors = Append(@, <<>>),
                         !.descriptorBuffer =
                             Append(@, [capacity |-> 0, buffer |-> 0]),
                         !.componentId = @ + 1]
            IN IF Len(pack) > 1 THEN registerComponent(w2, Tail(pack))
               ELSE w2

\* A faulty createEntity: the counter is read but not advanced.
createEntityNoAdvance(w) ==
    [w EXCEPT
       !.entitySignatures = MapEmplace(@, w.entityId, {}),
       !.entitySystemDescriptors = MapEmplace(@, w.entityId, {})]

createEntity(w) ==
    [w EXCEPT
       !.entitySignatures = MapEmplace(@, w.entityId, {}),
       !.entitySystemDescriptors = MapEmplace(@, w.entityId, {}),
       !.entityId = @ + 1]

\* &descriptor for the descriptor at position i of systemDescriptors.at(bit)
DescriptorPointer(w, bit, i) == <<bit, i, w.descriptorBuffer[bit + 1].buffer>>

\* The body run for each descriptor that passes the filter of addComponent.
admit(w, bit, i, handle) ==
    LET d == w.systemDescriptors[bit + 1][i]
        w1 == [w EXCEPT !.entities[d.system] = @ \cup {handle}]
        w2 == regenerateComponentList(w1, d.system)
    IN IF w2.err # NoErr THEN w2
       ELSE [w2 EXCEPT !.entitySystemDescriptors[handle] =
                           @ \cup {DescriptorPointer(w, bit, i)}]

\* A faulty eviction: the system's entity set is cleared.
evictClears(w, bit, i, handle) ==
    LET d == w.systemDescriptors[bit + 1][i]
        w1 == [w EXCEPT !.entities[d.system] = {}]
        w2 == regenerateComponentList(w1, d.system)
    IN IF w2.err # NoErr THEN w2
       ELSE [w2 EXCEPT !.entitySystemDescriptors[handle] =
                           @ \ {DescriptorPointer(w, bit, i)}]

\* The body run for each descriptor that passes the filter of removeComponent.
evict(w, bit, i, handle) ==
    LET d == w.systemDescriptors[bit + 1][i]
        w1 == [w EXCEPT !.entities[d.system] = @ \ {handle}]
        w2 == regenerateComponentList(w1, d.system)
    IN IF w2.err # NoErr THEN w2
       ELSE [w2 EXCEPT !.entitySystemDescriptors[handle] =
                           @ \ {DescriptorPointer(w, bit, i)}]

RECURSIVE addLoop(_, _, _, _)
addLoop(w, bit, i, handle) ==
    IF w.err # NoErr \/ i > Len(w.systemDescriptors[bit + 1]) THEN w
    ELSE IF compareSignatures(w.entitySignatures[handle],
                              w.systemDescriptors[bit + 1][i].signature)
         THEN addLoop(admit(w, bit, i, handle), bit, i + 1, handle)
         ELSE addLoop(w, bit, i + 1, handle)

\* A faulty addComponent: the bit of the signature is not set.
WorldAddComponentNoBit(w, T, handle) ==
    IF handle \notin DOMAIN w.entitySignatures THEN Throw(w, OutOfRange, 110)
    ELSE LET bit == w.signatureBit[T]
             w2 == createComponent(w, T, handle)
         IN IF bit >= Len(w.systemDescriptors) THEN Throw(w2, OutOfRange, 114)
            ELSE addLoop(w2, bit, 1, handle)

WorldAddComponent(w, T, handle) ==
    IF handle \notin DOMAIN w.entitySignatures THEN Throw(w, OutOfRange, 110)
    ELSE LET bit == w.signatureBit[T]
             w1 == [w EXCEPT !.entitySignatures[handle] = @ \cup {bit}]
             w2 == createComponent(w1, T, handle)
         IN IF bit >= Len(w.systemDescriptors) THEN Throw(w2, OutOfRange, 114)
            ELSE addLoop(w2, bit, 1, handle)

RECURSIVE removeLoop(_, _, _, _)
removeLoop(w, bit, i, handle) ==
    IF w.err # NoErr \/ i > Len(w.systemDescriptors[bit + 1]) THEN w
    ELSE IF handle \notin DOMAIN w.entitySignatures
         THEN Throw(w, OutOfRange, 131)
    ELSE IF compareSignatures(w.entitySignatures[handle],
                              w.systemDescriptors[bit + 1][i].signature)
         THEN removeLoop(evict(w, bit, i, handle), bit, i + 1, handle)
         ELSE removeLoop(w, bit, i + 1, handle)

WorldRemoveComponent(w, T, handle) ==
    LET bit == w.signatureBit[T] IN
    IF bit >= Len(w.systemDescriptors) THEN Throw(w, OutOfRange, 129)
    ELSE LET w1 == removeLoop(w, bit, 1, handle) IN
         IF w1.err # NoErr THEN w1
         ELSE IF handle \notin DOMAIN w1.entitySignatures
              THEN Throw(w1, OutOfRange, 140)
         ELSE RegistrarRemoveComponent(
                  [w1 EXCEPT !.entitySignatures[handle] = @ \ {bit}], T, handle)

\* A faulty destroyEntity: the component destructors are not run.
destructorLoopSkipped(w, bits, handle) == w

\* destructors.at(bit)(handle) for every set bit, in increasing bit order
RECURSIVE destructorLoop(_, _, _)
destructorLoop(w, bits, handle) ==
    IF w.err # NoErr \/ bits = {} THEN w
    ELSE LET bit == Min(bits) IN
         IF bit >= Len(w.destructors) THEN Throw(w, OutOfRange, 95)
         ELSE destructorLoop(
                  RegistrarRemoveComponent(w, w.destructors[bit + 1], handle),
                  bits \ {bit}, handle)

\* A pointer taken before the vector it points into was reallocated.
Dangling(w, p) == p[3] # w.descriptorBuffer[p[1] + 1].buffer

\* The descriptor the pointer was taken of (descriptors are never modified).
Deref(w, p) == w.systemDescriptors[p[1] + 1][p[2]]

\* descriptor->set->erase(handle); descriptor->regenerateComponentList();
unlink(w, p, handle) ==
    LET S == Deref(w, p).system
    IN regenerateComponentList([w EXCEPT !.entities[S] = @ \ {handle}], S)

RECURSIVE unlinkLoop(_, _, _)
unlinkLoop(w, ptrs, handle) ==
    IF w.err # NoErr \/ ptrs = {} THEN w
    ELSE LET p == CHOOSE q \in ptrs : TRUE
         IN unlinkLoop(unlink(w, p, handle), ptrs \ {p}, handle)

\* The allocation a descriptor pointer points into.
Buffer(p) == <<p[1], p[3]>>

NoPointer == <<>>

\* The descriptors at which the loop of destroyEntity ends early: a dangling
\* one, unless its storage reads back intact, and one whose
\* regenerateComponentList throws.
EndsLoop(w, p, handle, outcome) ==
    \/ outcome # "intact" /\ Dangling(w, p)
    \/ unlink(w, p, handle).err # NoErr

\* destroyEntity(handle) of a handle in the directory (lines 93-105). The
\* loop over the entity's back-reference set runs
\* in address order: `visited` are the descriptors it passes before `stale`,
\* the first at which it ends early (NoPointer when it runs to its end).
\* Dereferencing a dangling pointer is undefined; `outcome` is what the
\* build makes of it:
\*   intact:         the freed storage reads as the descriptor did
\*   empty_function: the set pointer still reads, the moved-from
\*                   std::function is empty and throws bad_function_call
\*   fault:          the process is terminated
destroyLive(w, handle, outcome, visited, stale) ==
    LET w1 == destructorLoop(w, w.entitySignatures[handle], handle)
        refs == w.entitySystemDescriptors[handle]
    IN IF w1.err # NoErr THEN w1
       ELSE IF stale = NoPointer
       THEN LET w2 == unlinkLoop(w1, refs, handle)
            IN IF w2.err # NoErr THEN w2
               ELSE [w2 EXCEPT
                       !.entitySystemDescriptors = MapErase(@, handle),
                       !.entitySignatures = MapErase(@, handle)]
       ELSE LET w2 == unlinkLoop(w1, visited, handle)
                S == Deref(w, stale).system
            IN IF w2.err # NoErr THEN w2
               ELSE IF outcome = "intact" \/ ~Dangling(w, stale)
               THEN unlink(w2, stale, handle)
               ELSE IF outcome = "empty_function"
               THEN Throw([w2 EXCEPT !.entities[S] = @ \ {handle}],
                          BadFunctionCall, 101)
               ELSE Throw([w2 EXCEPT !.aborted = TRUE], "fault", 100)

\* A faulty destroyEntity: the signature is looked up with operator[],
\* which enters a handle the directory does not hold.
destroyEntityUnchecked(w, handle, outcome, visited, stale) ==
    IF handle \notin DOMAIN w.entitySignatures
    THEN Throw([w EXCEPT !.entitySignatures = MapEmplace(@, handle, {})],
               OutOfRange, 99)
    ELSE destroyLive(w, handle, outcome, visited, stale)

destroyEntity(w, handle, outcome, visited, stale) ==
    IF handle \notin DOMAIN w.entitySignatures THEN Throw(w, OutOfRange, 92)
    ELSE destroyLive(w, handle, outcome, visited, stale)

\* The ways destroyEntity(handle) can run on w: the outcomes of a dangling
\* dereference, and the address orders of the allocations the
\* back-references point into (within one allocation, position order).
DestroyChoices(w, handle) ==
    IF handle \notin DOMAIN w.entitySignatures
    THEN {<<"intact", {}, NoPointer>>}
    ELSE
    LET w1 == destructorLoop(w, w.entitySignatures[handle], handle)
        refs == w.entitySystemDescriptors[handle]
        outcomes == IF \E p \in refs : Dangling(w, p)
                    THEN UBOutcomes ELSE {"intact"}
        Ways(outcome) ==
            LET bad == {p \in refs : EndsLoop(w1, p, handle, outcome)}
                first == {p \in bad :
                            \A q \in bad : Buffer(q) = Buffer(p) => p[2] <= q[2]}
                clean == {Buffer(p) : p \in refs} \ {Buffer(p) : p \in bad}
                Before(p, bufs) ==
                    {q \in refs : \/ Buffer(q) \in bufs
                                  \/ Buffer(q) = Buffer(p) /\ q[2] < p[2]}
            IN IF bad = {} THEN {<<outcome, refs, NoPointer>>}
               ELSE UNION {{<<outcome, Before(p, bufs), p>> :
                               bufs \in SUBSET clean} : p \in first}
    IN IF w1.err # NoErr THEN {<<"intact", {}, NoPointer>>}
       ELSE UNION {Ways(o) : o \in outcomes}

\* ----------------------------------------------------------------- Entity
\* An Entity object is unborn (not constructed yet), alive, or dead (its
\* destructor has run). `handle` is the member Entity::handle; of a dead
\* object it is the value its destructor passed to World::destroyEntity
\* (0 when it passed none).

\* A faulty move constructor: the source keeps its handle.
moveConstructKeepsSource(ws, x, other) ==
    [ws EXCEPT ![x] = [state |-> "alive", handle |-> ws[other].handle]]

\* Entity(Entity&& other) : handle{other.handle} { other.handle = 0; }
moveConstruct(ws, x, other) ==
    LET ws1 == [ws EXCEPT ![x] = [state |-> "alive",
                                  handle |-> ws[other].handle]]
    IN [ws1 EXCEPT ![other].handle = 0]

\* operator=(Entity&& other): handle = other.handle; other.handle = 0;
\* (x and other may be the same object).
moveAssign(ws, x, other) ==
    LET ws1 == [ws EXCEPT ![x].handle = ws[other].handle]
    IN [ws1 EXCEPT ![other].handle = 0]

\* An exception that leaves ~Entity(), which is noexcept, ends the process
\* in std::terminate.
terminateOnThrow(w) == IF w.err # NoErr THEN [w EXCEPT !.aborted = TRUE] ELSE w

\* ---------------------------------------------------------------- actions
Init ==
    /\ signature = [T \in Types |-> {}]
    /\ signatureBit = [T \in Types |-> 0]
    /\ components = [T \in Types |-> <<>>]
    /\ handleMap = [T \in Types |-> EmptyMap]
    /\ reverseMap = [T \in Types |-> EmptyMap]
    /\ componentId = 0
    /\ entityId = 1
    /\ destructors = <<>>
    /\ systemDescriptors = <<>>
    /\ descriptorBuffer = <<>>
    /\ entitySignatures = EmptyMap
    /\ entitySystemDescriptors = EmptyMap
    /\ entities = [S \in Systems |-> {}]
    /\ componentList = [S \in Systems |-> <<>>]
    /\ registered = [S \in Systems |-> FALSE]
    /\ aborted = FALSE
    /\ last = [op |-> "init", handle |-> 0, type |-> NoType,
               err |-> NoErr, site |-> 0]
    /\ calls = 0
    /\ script = [done |-> {}, e1 |-> 0, e2 |-> 0]
    /\ wrappers = [x \in Wrappers |-> [state |-> "unborn", handle |-> 0]]

\* The call `op` ran on the current state and left the world w.
Apply(w, op, handle, T) ==
    /\ ~aborted
    /\ calls' = calls + 1
    /\ signature' = w.signature
    /\ signatureBit' = w.signatureBit
    /\ components' = w.components
    /\ handleMap' = w.handleMap
    /\ reverseMap' = w.reverseMap
    /\ componentId' = w.componentId
    /\ entityId' = w.entityId
    /\ destructors' = w.destructors
    /\ systemDescriptors' = w.systemDescriptors
    /\ descriptorBuffer' = w.descriptorBuffer
    /\ entitySignatures' = w.entitySignatures
    /\ entitySystemDescriptors' = w.entitySystemDescriptors
    /\ entities' = w.entities
    /\ componentList' = w.componentList
    /\ registered' = w.registered
    /\ aborted' = w.aborted
    /\ last' = [op |-> op, handle |-> handle, type |-> T,
                err |-> w.err, site |-> w.site]

\* A call of a free run of the API, which makes at most MaxCalls of them.
Commit(w, op, handle, T) ==
    /\ calls < MaxCalls
    /\ Apply(w, op, handle, T)
    /\ UNCHANGED <<script, wrappers>>

IsRegistered(T) == signature[T] # {}

\* The template argument packs of registerComponent: distinct types.
Packs ==
    {<<T>> : T \in Types}
        \cup {<<T, U>> : <<T, U>> \in {p \in Types \X Types : p[1] # p[2]}}

\* World::registerComponent<Ts...>(), each type once (the documented use).
RegisterComponent(pack) ==
    /\ \A i \in 1 .. Len(pack) : ~IsRegistered(pack[i])
    /\ Commit(registerComponent(World, pack), "registerComponent", 0, pack)

\* System<...>::registerSystem(), of registered component types.
RegisterSystem(S) ==
    /\ \A T \in SystemComponents(S) : IsRegistered(T)
    /\ Commit(registerSystem(World, S), "registerSystem", 0, S)

CreateEntity ==
    /\ entityId <= MaxEntities
    /\ Commit(createEntity(World), "createEntity", entityId, NoType)

AddComponent(T, handle) ==
    /\ IsRegistered(T)
    /\ Len(components[T]) < MaxSlots
    /\ Commit(WorldAddComponent(World, T, handle), "addComponent", handle, T)

RemoveComponent(T, handle) ==
    /\ IsRegistered(T)
    /\ Commit(WorldRemoveComponent(World, T, handle),
              "removeComponent", handle, T)

DestroyEntity(handle) ==
    \E c \in DestroyChoices(World, handle) :
        Commit(destroyEntity(World, handle, c[1], c[2], c[3]),
               "destroyEntity", handle, NoType)

Next ==
    \/ \E pack \in Packs : RegisterComponent(pack)
    \/ \E S \in Systems : RegisterSystem(S)
    \/ CreateEntity
    \/ \E T \in Types, h \in Handles : AddComponent(T, h)
    \/ \E T \in Types, h \in Handles : RemoveComponent(T, h)
    \/ \E h \in Handles : DestroyEntity(h)

Spec == Init /\ [][Next]_vars

\* --------------------------------------------------------------- scenario
\* The scenario of the specification: register types A and B; register
\* System<A,B>; create e1; add A then B to e1; create e2; add only A to e2;
\* remove B from e1; destroy e2. `script.done` holds the steps made,
\* script.e1 and script.e2 the handles createEntity returned. The calls on
\* e1 and the calls on e2 are independent and run in either order relative
\* to each other; A and B are registered by one call or by two.
ScenarioSteps ==
    {"registerA", "registerB", "registerSysAB", "create1", "addA1", "addB1",
     "create2", "addA2", "removeB1", "destroy2"}

\* The steps that a step of the scenario follows.
Requires(step) ==
    CASE step = "registerA" -> {}
      [] step = "registerB" -> {}
      [] step = "registerSysAB" -> {"registerA", "registerB"}
      [] step = "create1" -> {"registerSysAB"}
      [] step = "addA1" -> {"create1"}
      [] step = "addB1" -> {"addA1"}
      [] step = "create2" -> {"create1"}
      [] step = "addA2" -> {"create2"}
      [] step = "removeB1" -> {"addB1"}
      [] step = "destroy2" -> {"addA2"}

Ready(steps) ==
    /\ steps \cap script.done = {}
    /\ \A step \in steps : Requires(step) \subseteq script.done

Done(steps) == [script EXCEPT !.done = @ \cup steps]

ScenarioRegisterComponent(pack) ==
    LET steps == {"register" \o pack[i] : i \in 1 .. Len(pack)} IN
    /\ Ready(steps)
    /\ Apply(registerComponent(World, pack), "registerComponent", 0, pack)
    /\ UNCHANGED wrappers
    /\ script' = Done(steps)

ScenarioRegisterSystem ==
    /\ Ready({"registerSysAB"})
    /\ Apply(registerSystem(World, "SysAB"), "registerSystem", 0, "SysAB")
    /\ UNCHANGED wrappers
    /\ script' = Done({"registerSysAB"})

ScenarioCreateE1 ==
    /\ Ready({"create1"})
    /\ Apply(createEntity(World), "createEntity", entityId, NoType)
    /\ UNCHANGED wrappers
    /\ script' = [Done({"create1"}) EXCEPT !.e1 = entityId]

ScenarioCreateE2 ==
    /\ Ready({"create2"})
    /\ Apply(createEntity(World), "createEntity", entityId, NoType)
    /\ UNCHANGED wrappers
    /\ script' = [Done({"create2"}) EXCEPT !.e2 = entityId]

ScenarioAdd(step, T, handle) ==
    /\ Ready({step})
    /\ Apply(WorldAddComponent(World, T, handle), "addComponent", handle, T)
    /\ UNCHANGED wrappers
    /\ script' = Done({step})

ScenarioRemoveB ==
    /\ Ready({"removeB1"})
    /\ Apply(WorldRemoveComponent(World, "B", script.e1),
             "removeComponent", script.e1, "B")
    /\ UNCHANGED wrappers
    /\ script' = Done({"removeB1"})

ScenarioDestroyE2 ==
    /\ Ready({"destroy2"})
    /\ \E c \in DestroyChoices(World, script.e2) :
          Apply(destroyEntity(World, script.e2, c[1], c[2], c[3]),
                "destroyEntity", script.e2, NoType)
    /\ UNCHANGED wrappers
    /\ script' = Done({"destroy2"})

ScenarioNext ==
    \/ \E pack \in Packs : ScenarioRegisterComponent(pack)
    \/ ScenarioRegisterSystem
    \/ ScenarioCreateE1
    \/ ScenarioCreateE2
    \/ ScenarioAdd("addA1", "A", script.e1)
    \/ ScenarioAdd("addB1", "B", script.e1)
    \/ ScenarioAdd("addA2", "A", script.e2)
    \/ ScenarioRemoveB
    \/ ScenarioDestroyE2

ScenarioSpec == Init /\ [][ScenarioNext]_vars

\* ----------------------------------------------------- the Entity wrapper
\* A step of an Entity object that makes no call of World.
Local(op, handle, T) ==
    /\ ~aborted
    /\ UNCHANGED <<worldVars, aborted, calls, script>>
    /\ last' = [op |-> op, handle |-> handle, type |-> T,
                err |-> NoErr, site |-> 0]

\* Entity x;
EntityConstruct(x) ==
    /\ wrappers[x].state = "unborn"
    /\ Apply(createEntity(World), "Entity", entityId, <<x>>)
    /\ wrappers' = [wrappers EXCEPT
                       ![x] = [state |-> "alive", handle |-> entityId]]
    /\ UNCHANGED script

\* The end of the lifetime of x.
EntityDestruct(x) ==
    LET handle == wrappers[x].handle IN
    /\ wrappers[x].state = "alive"
    /\ IF handle = 0
       THEN Local("~Entity", 0, <<x>>)
       ELSE /\ \E c \in DestroyChoices(World, handle) :
                 Apply(terminateOnThrow(
                           destroyEntity(World, handle, c[1], c[2], c[3])),
                       "~Entity", handle, <<x>>)
            /\ UNCHANGED script
    /\ wrappers' = [wrappers EXCEPT ![x].state = "dead"]

\* Entity x{std::move(other)};
EntityMoveConstruct(x, other) ==
    /\ wrappers[x].state = "unborn"
    /\ wrappers[other].state = "alive"
    /\ Local("moveConstruct", wrappers[other].handle, <<x, other>>)
    /\ wrappers' = moveConstruct(wrappers, x, other)

\* x = std::move(other);
EntityMoveAssign(x, other) ==
    /\ wrappers[x].state = "alive"
    /\ wrappers[other].state = "alive"
    /\ Local("moveAssign", wrappers[other].handle, <<x, other>>)
    /\ wrappers' = moveAssign(wrappers, x, other)

WrapperNext ==
    \/ \E x \in Wrappers : EntityConstruct(x)
    \/ \E x \in Wrappers : EntityDestruct(x)
    \/ \E x, other \in Wrappers : EntityMoveConstruct(x, other)
    \/ \E x, other \in Wrappers : EntityMoveAssign(x, other)

WrapperSpec == Init /\ [][WrapperNext]_vars

\* ------------------------------------------ runs without duplicate adds
\* The runs in which systems are registered before the first entity is
\* created, and addComponent<T>(handle) is not called for a handle that
\* T's store holds (the precondition Entity::addComponent asserts).
SetupRegisterSystem(S) ==
    /\ entityId = 1
    /\ RegisterSystem(S)

FirstAddComponent(T, handle) ==
    /\ handle \notin DOMAIN handleMap[T]
    /\ AddComponent(T, handle)

AgreementNext ==
    \/ \E pack \in Packs : RegisterComponent(pack)
    \/ \E S \in Systems : SetupRegisterSystem(S)
    \/ CreateEntity
    \/ \E T \in Types, h \in Handles : FirstAddComponent(T, h)
    \/ \E T \in Types, h \in Handles : RemoveComponent(T, h)
    \/ \E h \in Handles : DestroyEntity(h)

AgreementSpec == Init /\ [][AgreementNext]_vars

\* ------------------------------------------------------------ vocabulary
Live == DOMAIN entitySignatures

\* The entity identifiers of a system's cached component list.
ListEntities(S) == {componentList[S][i].entity : i \in 1 .. Len(componentList[S])}

Returned(op) == last.op = op /\ last.err = NoErr

\* ---------------------------------------------------------------- claims

\* C1: for every live entity e and every registered system S, e is in S's
\* cached entity set iff e's signature is a superset of S's required
\* signature, systems registered after entities hold components included.
C1_MembershipCorrect ==
    \A e \in Live, S \in Systems :
        registered[S] =>
            (e \in entities[S]
               <=> compareSignatures(entitySignatures[e],
                                     generateSignature(World, S)))

\* C2: after every addComponent, removeComponent or destroyEntity, every
\* cached tuple refers, for each required type T, to the slot that holds the
\* T component of the tuple's own entity: the cached slot is handleMap[e]
\* and lies within the dense array.
C2_CachedSlotsCurrent ==
    (Returned("addComponent") \/ Returned("removeComponent")
        \/ Returned("destroyEntity")) =>
    \A S \in Systems : \A i \in 1 .. Len(componentList[S]) :
        LET t == componentList[S][i] IN
        \A T \in SystemComponents(S) :
            /\ t.entity \in DOMAIN handleMap[T]
            /\ t.slot[T] = handleMap[T][t.entity]
            /\ t.slot[T] < Len(components[T])

\* C3: the entity identifiers of a system's cached component list are
\* exactly the system's cached entity set, one tuple per member.
C3_ListMatchesSet ==
    \A S \in Systems :
        /\ ListEntities(S) = entities[S]
        /\ Len(componentList[S]) = Cardinality(entities[S])

\* C4: in every component store, handleMap[entity] = i iff
\* reverseMap[i] = entity, for all entities and slot indices.
C4_Bijective ==
    \A T \in Types : \A e \in Handles, i \in 0 .. MaxSlots :
        (e \in DOMAIN handleMap[T] /\ handleMap[T][e] = i)
            <=> (i \in DOMAIN reverseMap[T] /\ reverseMap[T][i] = e)

\* C5: in every component store the length of the dense array equals the
\* size of handleMap and of reverseMap, and the occupied slots are exactly
\* 0 .. length-1.
C5_Dense ==
    \A T \in Types :
        /\ Len(components[T]) = Cardinality(DOMAIN handleMap[T])
        /\ Len(components[T]) = Cardinality(DOMAIN reverseMap[T])
        /\ {handleMap[T][e] : e \in DOMAIN handleMap[T]}
               = 0 .. (Len(components[T]) - 1)
        /\ DOMAIN reverseMap[T] = 0 .. (Len(components[T]) - 1)

C7_CascadeDestroy ==
    Returned("destroyEntity") =>
        LET e == last.handle IN
        /\ \A S \in Systems : e \notin entities[S] /\ e \notin ListEntities(S)
        /\ \A T \in Types :
             /\ e \notin DOMAIN handleMap[T]
             /\ \A i \in DOMAIN reverseMap[T] : reverseMap[T][i] # e
        /\ e \notin DOMAIN entitySignatures
        /\ e \notin DOMAIN entitySystemDescriptors

\* C8: addComponent<T>(e) on an entity that already holds T ends in an
\* error and leaves the store, the signatures and the system caches as
\* they were.
C8_DuplicateAddRejected ==
    [][(/\ last'.op = "addComponent"
        /\ last'.handle \in Live
        /\ last'.handle \in DOMAIN handleMap[last'.type])
          => (last'.err # NoErr /\ UNCHANGED worldVars)]_vars

\* C9: removeComponent<T>(e) on a live entity that does not hold T (no bit
\* of T in its signature, no entry in T's store) ends in an error and
\* leaves every container as it was.
C9_MissingRemoveRejected ==
    [][(/\ last'.op = "removeComponent"
        /\ last'.handle \in Live
        /\ signatureBit[last'.type] \notin entitySignatures[last'.handle]
        /\ last'.handle \notin DOMAIN handleMap[last'.type])
          => (last'.err = OutOfRange /\ UNCHANGED worldVars)]_vars

C9_Witness ==
    /\ last.op = "removeComponent"
    /\ last.err = OutOfRange /\ last.site = 53
    /\ last.handle \in Live
    /\ \E S \in Systems : entities[S] # {}
    /\ components[last.type] # <<>>

\* C10: destroyEntity(h) of a handle that is not in the directory (never
\* created, 0, or destroyed before) ends in an error and changes nothing.
C10_UnknownDestroyRejected ==
    [][(last'.op = "destroyEntity" /\ last'.handle \notin Live)
          => (last'.err = OutOfRange /\ UNCHANGED worldVars)]_vars

\* A second destroy of a handle, while components and members remain.
C10_Witness ==
    /\ last.op = "destroyEntity"
    /\ last.err = OutOfRange /\ last.site = 92
    /\ last.handle \notin Live
    /\ last.handle # 0 /\ last.handle < entityId
    /\ \E T \in Types : components[T] # <<>>
    /\ \E S \in Systems : entities[S] # {}

\* C11: registerSystem() of a system that is registered already returns
\* without an error and leaves the per-bit descriptor index, the system's
\* cached set and list, and every other container as they were.
C11_RegisterIdempotent ==
    [][(last'.op = "registerSystem" /\ registered[last'.type])
          => (last'.err = NoErr /\ UNCHANGED worldVars)]_vars

\* A registerSystem call on a system that has members: members are admitted
\* only through a descriptor, so the system was registered before the call.
C11_Witness ==
    /\ Returned("registerSystem")
    /\ registered[last.type]
    /\ entities[last.type] # {}
    /\ componentList[last.type] # <<>>

\* C12: entity identifiers are handed out strictly increasing from 1. The
\* counter entityId never decreases and exceeds every identifier in the
\* directory; a createEntity returns a value that is at least 1, at least
\* the counter before the call (hence above every value returned earlier,
\* destroyed ones included) and below the counter after it; 0 is never in
\* the directory.
C12_IdsStrictlyIncreasing ==
    [][/\ entityId' >= entityId
       /\ 0 \notin Live'
       /\ \A e \in Live' : e < entityId'
       /\ last'.op = "createEntity" =>
            /\ last'.err = NoErr
            /\ last'.handle >= 1
            /\ last'.handle >= entityId
            /\ last'.handle < entityId'
            /\ last'.handle \notin Live
            /\ last'.handle \in Live']_vars

\* A createEntity made after an earlier entity was destroyed.
C12_Witness ==
    /\ Returned("createEntity")
    /\ last.handle \in Live
    /\ \E h \in 1 .. (last.handle - 1) : h \notin Live
    /\ \E h \in 1 .. (last.handle - 1) : h \in Live

\* C13: at the end of the scenario (its last step being the destroy of
\* e2) the dense array of A's store has length 0.
C13_ScenarioStoreEmpty ==
    script.done = ScenarioSteps => Len(components["A"]) = 0

\* C13, amended: at the end of the scenario the dense array of A's store
\* has length 1, its one slot holding the A of e1; B's store is empty, e1
\* is the only live entity and System<A,B> has no member and no tuple.
C13_ScenarioStoreHoldsE1 ==
    script.done = ScenarioSteps =>
        /\ Len(components["A"]) = 1
        /\ handleMap["A"] = (script.e1 :> 0)
        /\ reverseMap["A"] = (0 :> script.e1)
        /\ components["B"] = <<>>
        /\ Live = {script.e1}
        /\ entities["SysAB"] = {} /\ componentList["SysAB"] = <<>>

\* The scenario in the order it is written, after its last call.
C13_Witness ==
    /\ script = [done |-> ScenarioSteps, e1 |-> 1, e2 |-> 2]
    /\ Returned("destroyEntity") /\ last.handle = 2
    /\ calls >= 9

\* C14: no two Entity objects hold the same non-zero handle, counting for
\* an object whose destructor has run the handle it passed to destroyEntity
\* (so no destructor destroys an identifier that another object holds or
\* that a destructor destroyed before); the source of a move construction
\* or move assignment holds 0 afterwards; and every destroyEntity made by a
\* destructor finds its handle in the directory.
C14_ExclusiveOwnership ==
    /\ \A x, y \in Wrappers :
          (x # y /\ wrappers[x].handle # 0)
              => wrappers[x].handle # wrappers[y].handle
    /\ last.op \in {"moveConstruct", "moveAssign"}
          => wrappers[last.type[2]].handle = 0
    /\ last.op = "~Entity" => (last.err = NoErr /\ ~aborted)

\* The destructor of an object that received its handle by a move has
\* destroyed the entity, after the destructor of the moved-from source ran.
C14_Witness ==
    /\ last.op = "~Entity" /\ last.handle # 0
    /\ last.handle \notin Live
    /\ \E x, y \in Wrappers :
          /\ wrappers[x] = [state |-> "dead", handle |-> 0]
          /\ wrappers[y] = [state |-> "dead", handle |-> last.handle]
          /\ last.type = <<y>>
    /\ \E z \in Wrappers : wrappers[z].state = "alive"

\* The steps in which Registrar<T>::removeComponent(h) ran: a
\* World::removeComponent<T>(h) that reached its last line, and a
\* destroyEntity(h) that completed its destructor loop, for every T whose
\* bit the signature of h had.
DetachRan(T, h) ==
    /\ last'.handle = h
    /\ \/ /\ last'.op = "removeComponent" /\ last'.type = T
          /\ last'.err = NoErr \/ last'.site \in 53 .. 57
       \/ /\ last'.op = "destroyEntity"
          /\ h \in Live
          /\ IsRegistered(T)
          /\ signatureBit[T] \in entitySignatures[h]
          /\ last'.err = NoErr \/ last'.site \in {65, 100, 101}

\* Entity e occupies slot i of T's store: both maps say so.
Occupies(T, e, i) ==
    /\ e \in DOMAIN handleMap[T] /\ handleMap[T][e] = i
    /\ i \in DOMAIN reverseMap[T] /\ reverseMap[T][i] = e
    /\ i < Len(components[T])

\* The component value getComponent<T>(e) returns, in the state before
\* and in the state after the step.
ValueBefore(T, e) == components[T][handleMap[T][e] + 1]
ValueAfter(T, e) == components'[T][handleMap'[T][e] + 1]

\* C15: a Registrar<T>::removeComponent(h) on a store where h occupies slot
\* i and another entity L occupies the last slot does not throw, and leaves
\* L at slot i (handleMap[L] = i, reverseMap[i] = L), h without an entry,
\* every other entity at its slot, every remaining entity with the
\* component value it had, and the dense array one slot shorter.
C15_SwapAndPop ==
    [][last'.op \in {"removeComponent", "destroyEntity"} =>
         \A T \in Types :
            LET h == last'.handle
                hm == handleMap[T]
                rm == reverseMap[T]
                end == Len(components[T]) - 1
                i == hm[h]
                L == rm[end]
            IN (/\ DetachRan(T, h)
                /\ h \in DOMAIN hm /\ end \in DOMAIN rm
                /\ L # h
                /\ Occupies(T, h, i)
                /\ Occupies(T, L, end)) =>
                  /\ ~(last'.op = "removeComponent" /\ last'.err # NoErr)
                  /\ L \in DOMAIN handleMap'[T] /\ handleMap'[T][L] = i
                  /\ i \in DOMAIN reverseMap'[T] /\ reverseMap'[T][i] = L
                  /\ h \notin DOMAIN handleMap'[T]
                  /\ \A e \in DOMAIN hm \ {h, L} :
                        /\ e \in DOMAIN handleMap'[T]
                        /\ handleMap'[T][e] = hm[e]
                  /\ \A e \in DOMAIN handleMap'[T] :
                        /\ e \in DOMAIN hm
                        /\ getComponentSucceeds(World, T, e) =>
                              /\ handleMap'[T][e] < Len(components'[T])
                              /\ ValueAfter(T, e) = ValueBefore(T, e)
                  /\ Len(components'[T]) = end]_vars

\* The scenario of the specification: A attached to e1, e2, e3 in order,
\* e1's A detached; e3's A has e1's old slot.
C15_Witness ==
    /\ Returned("removeComponent") /\ last.handle = 1
    /\ \E T \in Types :
          /\ last.type = T
          /\ components[T] = <<3, 2>>
          /\ handleMap[T] = (2 :> 1) @@ (3 :> 0)
          /\ reverseMap[T] = (0 :> 3) @@ (1 :> 2)

\* The systems whose descriptors the back-reference set of e points at.
BackReferences(e) ==
    {Deref(World, p).system : p \in entitySystemDescriptors[e]}

\* C16: for every live entity e and every system S, the back-reference set
\* of e holds a descriptor of S iff e is in S's cached entity set.
C16_BackReferencesCurrent ==
    \A e \in Live :
        /\ e \in DOMAIN entitySystemDescriptors
        /\ \A S \in Systems : S \in BackReferences(e) <=> e \in entities[S]

\* C17: an addComponent<T>(e) or removeComponent<T>(e), whether it returns
\* or throws, leaves unchanged the cached entity set of every system that
\* does not require T, the membership of every entity other than e in
\* every system, the signature (and liveness) of every other entity, and
\* the store of every component type other than T.
C17_Frame ==
    [][last'.op \in {"addComponent", "removeComponent"} =>
         LET T == last'.type
             e == last'.handle
         IN /\ \A S \in Systems :
                  T \notin SystemComponents(S) => entities'[S] = entities[S]
            /\ \A S \in Systems :
                  entities'[S] \ {e} = entities[S] \ {e}
            /\ Live' \ {e} = Live \ {e}
            /\ \A o \in Live \ {e} :
                  entitySignatures'[o] = entitySignatures[o]
            /\ \A U \in Types \ {T} :
                  /\ components'[U] = components[U]
                  /\ handleMap'[U] = handleMap[U]
                  /\ reverseMap'[U] = reverseMap[U]]_vars

\* An addComponent<T>(e) that brought e into a system that had another
\* member, while e is in a system that does not require T and the other
\* type's store holds components.
C17_Witness ==
    /\ Returned("addComponent")
    /\ \E S \in Systems :
          /\ last.type \in SystemComponents(S)
          /\ last.handle \in entities[S]
          /\ entities[S] # {last.handle}
    /\ \E S \in Systems :
          /\ last.type \notin SystemComponents(S)
          /\ last.handle \in entities[S]
    /\ \E U \in Types \ {last.type} : components[U] # <<>>

\* C18: every entity in the directory is held by an Entity object whose
\* lifetime has not ended, with that non-zero handle; so when every Entity
\* object constructed has been destroyed the directory is empty.
C18_NoLeak ==
    /\ \A e \in Live :
          \E x \in Wrappers :
              wrappers[x].state = "alive" /\ wrappers[x].handle = e
    /\ (\A x \in Wrappers : wrappers[x].state # "alive") => Live = {}

\* The live entities whose signature has T's bit.
Holders(T) == {e \in Live : signatureBit[T] \in entitySignatures[e]}

\* C19: in runs without duplicate adds, for every registered type T an
\* entity has an entry in T's handleMap iff it is live and T's bit is set
\* in its signature; the size of T's store is the number of such entities;
\* and no map of the store names an entity that is not live.
C19_SignatureStoreAgreement ==
    \A T \in Types :
        IsRegistered(T) =>
            /\ DOMAIN handleMap[T] = Holders(T)
            /\ Len(components[T]) = Cardinality(Holders(T))
            /\ \A i \in DOMAIN reverseMap[T] : reverseMap[T][i] \in Holders(T)
            /\ \A i \in 1 .. Len(components[T]) : components[T][i] \in Live

\* A destroyEntity that returned while another entity holds a component
\* and is a member of a registered system.
C19_Witness ==
    /\ Returned("destroyEntity")
    /\ last.handle \notin Live /\ last.handle # 0
    /\ \E T \in Types : Holders(T) # {}
    /\ \E S \in Systems : registered[S] /\ entities[S] # {}

\* ------------------------------------------------------- well-formedness
\* Every index handleMap holds is a slot of the dense array, so line 54
\* never evaluates components.back() on an empty array.
StoreIndicesInRange ==
    \A T \in Types : \A e \in DOMAIN handleMap[T] :
        handleMap[T][e] < Len(components[T])

====
